---- MODULE Spec2Model ----
(***************************************************************************)
(* A model of the quote generator: the striped-background colour-utility  *)
(* plugin of its build (plugins/bg-stripes.js), the quote client with its  *)
(* cache and timeouts (QuoteClient), the app (src/main.ts) and debounce.   *)
(*                                                                         *)
(* JavaScript strings are sequences of one-character strings, so that the  *)
(* string surgery of withOpacity (startsWith, slice, split, replace, the   *)
(* regular expression) is computed character by character.  JavaScript     *)
(* values are records tagged with their typeof class.                      *)
(***************************************************************************)
EXTENDS Integers, Sequences, FiniteSets, TLC

VARIABLES
    themeColors,    \* Object.entries(theme('colors')): the colour table, in iteration order
    options,        \* the options object the plugin factory was called with
    pc,             \* position of the plugin function: "theme", "scale", "add", "match", "done"
    fi,             \* index of the family the theme loop is at
    si,             \* index of the shade the scale loop is at
    previousColor,  \* the scale loop's previousColor
    utilities,      \* the utilities object addColor writes to
    added,          \* what addUtilities received from the plugin
    lastAdd,        \* the most recent addColor call that wrote an entry
    woColor,        \* withOpacity call: the color argument
    woOpacity,      \* withOpacity call: the opacity argument
    woOutcome,      \* withOpacity call: how it ended
    mvValue,        \* 'bg-stripes' handler call: the value argument
    mvOutcome,      \* 'bg-stripes' handler call: how it ended
    history,        \* build passes: the inputs and the result of every finished plugin call
    passes,         \* build passes: the number of finished plugin calls
    storage,        \* quote client: localStorage's item 'cache_quotes'
    now,            \* quote client: Date.now()
    ticks,          \* quote client: how often the clock has advanced
    calls,          \* quote client: how many getQuotes calls were made
    gq,             \* quote client: the getQuotes call
    req,            \* quote client: the two fetchWithTimeout calls of getQuotes
    quotes,         \* app: this.quotes
    app,            \* app: where initialize is, the displayNewQuote timers, the clicks
    dom,            \* app: the quote and author texts, the classes, the button
    tweet,          \* app: what the twitter handler opened last
    db,             \* debounce: wait, immediate, and the closure's timeoutId
    timers,         \* debounce: the timers that are set
    clock,          \* debounce: the time in milliseconds
    invocations,    \* debounce: the calls of the debounced function so far
    execs           \* debounce: the executions of callback so far

vars == <<themeColors, options, pc, fi, si, previousColor, utilities, added, lastAdd,
          woColor, woOpacity, woOutcome, mvValue, mvOutcome,
          history, passes,
          storage, now, ticks, calls, gq, req,
          quotes, app, dom, tweet,
          db, timers, clock, invocations, execs>>

pluginVars == <<themeColors, options, pc, fi, si, previousColor, utilities, added, lastAdd>>
woVars == <<woColor, woOpacity, woOutcome>>
mvVars == <<mvValue, mvOutcome>>
passVars == <<history, passes>>
qcVars == <<storage, now, ticks, calls, gq, req>>
\* The state of the page's script, and the state of the build
appVars == <<quotes, app, dom, tweet>>
dbVars == <<db, timers, clock, invocations, execs>>
browserVars == <<qcVars, appVars, dbVars>>
buildVars == <<pluginVars, woVars, mvVars, passVars>>
\* What the plugin's own steps never touch
otherVars == <<passVars, browserVars>>
\* What the quote client's steps never touch
nonClientVars == <<buildVars, appVars, dbVars>>
\* What the app's steps never touch
nonAppVars == <<buildVars, qcVars, dbVars>>
\* What the debounced function's steps never touch
nonDebounceVars == <<buildVars, qcVars, appVars>>

\* No plugin call has finished
PassIdle ==
    /\ history = {}
    /\ passes = 0

\* A fetchWithTimeout call that was not made
NoRequest == [st |-> "none", timer |-> "none", due |-> 0, aborted |-> FALSE, data |-> <<>>]

\* No getQuotes call was made
ClientIdle ==
    /\ storage = [t |-> "none"]
    /\ now = 0
    /\ ticks = 0
    /\ calls = 0
    /\ gq = [st |-> "idle", useCache |-> FALSE, value |-> <<>>, http |-> 0,
             before |-> [t |-> "none"], at |-> 0, afterRead |-> [t |-> "none"], doneAt |-> 0]
    /\ req = [i \in 1..2 |-> NoRequest]

\* No App was constructed
AppIdle ==
    /\ quotes = <<>>
    /\ app = [pc |-> "off", initTimer |-> FALSE, clickTimers |-> 0, clicks |-> 0, uncaught |-> 0]
    /\ dom = [quote |-> <<>>, author |-> <<>>, long |-> FALSE, loadingHidden |-> FALSE,
              disabled |-> FALSE]
    /\ tweet = <<>>

\* No function was debounced
DebounceIdle ==
    /\ db = [wait |-> 0, immediate |-> FALSE, timeoutId |-> 0, nextId |-> 1]
    /\ timers = {}
    /\ clock = 0
    /\ invocations = <<>>
    /\ execs = <<>>

BrowserIdle == ClientIdle /\ AppIdle /\ DebounceIdle

OtherIdle == PassIdle /\ BrowserIdle

(***************************************************************************)
(* Bounds of the model.                                                    *)
(***************************************************************************)
\* At most this many calls of the plugin function after the first.
MaxPasses == 3
\* At most this many components in a generated colour-function argument list.
MaxComponents == 4
\* At most this many cells (families plus shades) in a generated colour table.
MaxCells == 4

(***************************************************************************)
(* JavaScript values.                                                      *)
(***************************************************************************)
NullV == [t |-> "null"]
UndefinedV == [t |-> "undefined"]
NumV(n) == [t |-> "number", n |-> n]
BoolV(b) == [t |-> "boolean", b |-> b]
StrV(s) == [t |-> "string", s |-> s]
\* An object, as the sequence of <<key, value>> pairs Object.entries gives.
ObjV(entries) == [t |-> "object", entries |-> entries]

\* typeof v
TypeOf(v) == IF v.t = "null" THEN "object" ELSE v.t

\* ToBoolean(v), the test of `!v` and of `v ? a : b`
Truthy(v) ==
    CASE v.t = "null" -> FALSE
      [] v.t = "undefined" -> FALSE
      [] v.t = "number" -> v.n # 0
      [] v.t = "boolean" -> v.b
      [] v.t = "string" -> Len(v.s) > 0
      [] OTHER -> TRUE

DigitChars == <<"0", "1", "2", "3", "4", "5", "6", "7", "8", "9">>
Digits == {DigitChars[k] : k \in 1..10}

\* Number-to-string of a natural number
RECURSIVE NatToString(_)
NatToString(n) ==
    IF n < 10 THEN <<DigitChars[n + 1]>>
    ELSE NatToString(n \div 10) \o <<DigitChars[(n % 10) + 1]>>

\* Number-to-string of p / 100 for a natural number p: the shortest decimal
\* that reads back as the quotient, which has at most two fraction digits.
HundredthsToString(p) ==
    LET whole == NatToString(p \div 100)
        frac == p % 100
    IN  IF frac = 0 THEN whole
        ELSE IF frac % 10 = 0 THEN whole \o <<".", DigitChars[(frac \div 10) + 1]>>
        ELSE whole \o <<".", DigitChars[(frac \div 10) + 1], DigitChars[(frac % 10) + 1]>>

\* ToString(v), as a template literal `${v}` applies it
JSToString(v) ==
    CASE v.t = "string" -> v.s
      [] v.t = "number" -> NatToString(v.n)
      [] v.t = "undefined" -> <<"u", "n", "d", "e", "f", "i", "n", "e", "d">>
      [] v.t = "null" -> <<"n", "u", "l", "l">>
      [] v.t = "boolean" -> IF v.b THEN <<"t", "r", "u", "e">> ELSE <<"f", "a", "l", "s", "e">>
      [] OTHER -> <<"[", "o", "b", "j", "e", "c", "t", " ", "O", "b", "j", "e", "c", "t", "]">>

(***************************************************************************)
(* String.prototype operations, on sequences of characters.                *)
(***************************************************************************)
\* s.startsWith(p)
StartsWith(s, p) == Len(s) >= Len(p) /\ SubSeq(s, 1, Len(p)) = p

\* s.slice(start, -1), for 0 <= start
SliceToLast(s, start) == SubSeq(s, start + 1, Len(s) - 1)

\* s.split(sep) for a one-character separator: the array of the pieces
RECURSIVE Split(_, _)
Split(s, sep) ==
    IF \A k \in 1..Len(s) : s[k] # sep THEN <<s>>
    ELSE LET k == CHOOSE k \in 1..Len(s) : s[k] = sep /\ \A m \in 1..(k - 1) : s[m] # sep
         IN  <<SubSeq(s, 1, k - 1)>> \o Split(SubSeq(s, k + 1, Len(s)), sep)

\* values[k] of an array of strings, 0-based: undefined beyond its end
ArrayGet(values, k) == IF k + 1 <= Len(values) THEN StrV(values[k + 1]) ELSE UndefinedV

\* The positions where pat occurs in s
Occurrences(s, pat) ==
    {k \in 1..(Len(s) - Len(pat) + 1) : SubSeq(s, k, k + Len(pat) - 1) = pat}

\* s.replace(pat, rep) for a string pattern: the first occurrence alone
\* (rep holds no `$`, so it is inserted literally)
ReplaceFirst(s, pat, rep) ==
    IF Occurrences(s, pat) = {} THEN s
    ELSE LET k == CHOOSE k \in Occurrences(s, pat) : \A m \in Occurrences(s, pat) : k <= m
         IN  SubSeq(s, 1, k - 1) \o rep \o SubSeq(s, k + Len(pat), Len(s))

\* The character class [\d.]
IsDigitOrDot(c) == c \in Digits \/ c = "."

\* Where /[\d.]+\)$/ matches in s: the leftmost start of a run of [\d.]
\* that reaches the `)` ending the string; 0 when there is no match.
TrailingNumeralStart(s) ==
    LET n == Len(s)
        starts == {k \in 1..(n - 1) : \A m \in k..(n - 1) : IsDigitOrDot(s[m])}
    IN  IF n >= 2 /\ s[n] = ")" /\ starts # {}
        THEN CHOOSE k \in starts : \A m \in starts : k <= m
        ELSE 0

\* s.replace(/[\d.]+\)$/, rep)
ReplaceTrailingNumeral(s, rep) ==
    IF TrailingNumeralStart(s) = 0 THEN s
    ELSE SubSeq(s, 1, TrailingNumeralStart(s) - 1) \o rep

(***************************************************************************)
(* withOpacity(color, opacity)                                             *)
(***************************************************************************)
OKLCH_PREFIX == <<"o", "k", "l", "c", "h", "(">>
HEX_PREFIX == <<"#">>
RGB_PREFIX == <<"r", "g", "b", "(">>
RGBA_PREFIX == <<"r", "g", "b", "a", "(">>
CURRENT_COLOR == <<"c", "u", "r", "r", "e", "n", "t", "C", "o", "l", "o", "r">>
SLASH == <<" ", "/", " ">>

\* `oklch(${values[0]} ${values[1]} ${values[2]} / ${opacity / 100})`
OklchBranch(color, opacity) ==
    LET values == Split(SliceToLast(color, 6), " ")
    IN  OKLCH_PREFIX \o JSToString(ArrayGet(values, 0)) \o <<" ">>
            \o JSToString(ArrayGet(values, 1)) \o <<" ">>
            \o JSToString(ArrayGet(values, 2)) \o SLASH
            \o HundredthsToString(opacity) \o <<")">>

\* A hex branch that writes the opacity as a fraction, as the other branches do
HexBranch_fraction(color, opacity) == color \o SLASH \o HundredthsToString(opacity)

\* `${color} / ${opacity}%`
HexBranch(color, opacity) == color \o SLASH \o NatToString(opacity) \o <<"%">>

\* color.replace('rgb(', 'rgba(').replace(')', `, ${opacity / 100})`)
RgbBranch(color, opacity) ==
    ReplaceFirst(ReplaceFirst(color, RGB_PREFIX, RGBA_PREFIX),
                 <<")">>, <<",", " ">> \o HundredthsToString(opacity) \o <<")">>)

\* An rgba branch whose pattern is /[\d.]\)$/: one character, not a run
RgbaBranch_oneChar(color, opacity) ==
    IF TrailingNumeralStart(color) = 0 THEN color
    ELSE SubSeq(color, 1, Len(color) - 2) \o HundredthsToString(opacity) \o <<")">>

\* color.replace(/[\d.]+\)$/, `${opacity / 100})`)
RgbaBranch(color, opacity) ==
    ReplaceTrailingNumeral(color, HundredthsToString(opacity) \o <<")">>)

\* A fallback that writes the opacity as a fraction
Fallback_fraction(opacity) == CURRENT_COLOR \o SLASH \o HundredthsToString(opacity)

\* `currentColor / ${opacity}%`
Fallback(opacity) == CURRENT_COLOR \o SLASH \o NatToString(opacity) \o <<"%">>

\* withOpacity: color is any JavaScript value, opacity a number; the result
\* is the JavaScript value returned.
withOpacity(color, opacity) ==
    IF TypeOf(color) = "string"
    THEN CASE StartsWith(color.s, OKLCH_PREFIX) -> StrV(OklchBranch(color.s, opacity))
           [] StartsWith(color.s, HEX_PREFIX) -> StrV(HexBranch(color.s, opacity))
           [] StartsWith(color.s, RGB_PREFIX) -> StrV(RgbBranch(color.s, opacity))
           [] StartsWith(color.s, RGBA_PREFIX) -> StrV(RgbaBranch(color.s, opacity))
           [] OTHER -> StrV(Fallback(opacity))
    ELSE StrV(Fallback(opacity))

(***************************************************************************)
(* The plugin's configuration and the declarations it generates.           *)
(***************************************************************************)
\* const defaultStyles
defaultStyles ==
    [size |-> StrV(<<"7", ".", "0", "7", "p", "x">>),
     angle |-> StrV(<<"1", "3", "5", "d", "e", "g">>),
     opacity |-> 50,
     bgOpacity |-> 10]

\* const config = { ...defaultStyles, ...options }
Config(opts) ==
    [k \in DOMAIN defaultStyles \cup DOMAIN opts |->
        IF k \in DOMAIN opts THEN opts[k] ELSE defaultStyles[k]]

LINEAR_GRADIENT == <<"l", "i", "n", "e", "a", "r", "-", "g", "r", "a", "d", "i", "e", "n", "t", "(">>
STOPS_10_50 == <<" ", "1", "0", "%", ",", " ", "t", "r", "a", "n", "s", "p", "a", "r", "e", "n", "t", " ", "0", ",", " ", "t", "r", "a", "n", "s", "p", "a", "r", "e", "n", "t", " ", "5", "0", "%", ",", " ">>
STOP_0 == <<" ", "0", ",", " ">>
STOPS_60 == <<" ", "6", "0", "%", ",", " ", "t", "r", "a", "n", "s", "p", "a", "r", "e", "n", "t", " ", "0", ",", " ", "t", "r", "a", "n", "s", "p", "a", "r", "e", "n", "t", ")">>

\* `linear-gradient(${angle}, ${stripe} 10%, transparent 0, transparent 50%,
\*  ${stripe} 0, ${stripe} 60%, transparent 0, transparent)`
GradientText(angle, stripe) ==
    LINEAR_GRADIENT \o JSToString(angle) \o <<",", " ">>
        \o JSToString(stripe) \o STOPS_10_50
        \o JSToString(stripe) \o STOP_0
        \o JSToString(stripe) \o STOPS_60

\* `${config.size} ${config.size}`
SizeText(size) == JSToString(size) \o <<" ">> \o JSToString(size)

\* The empty object {}
EmptyObject == [k \in {} |-> NullV]

\* A handler that has lost its guard and generates for every value
bgStripes_noGuard(value, config) ==
    [backgroundColor |-> withOpacity(value, config.bgOpacity),
     backgroundImage |-> StrV(GradientText(config.angle, withOpacity(value, config.opacity))),
     backgroundSize |-> StrV(SizeText(config.size))]

\* The 'bg-stripes' handler given to matchUtilities
bgStripes(value, config) ==
    IF ~Truthy(value) \/ TypeOf(value) # "string" THEN EmptyObject
    ELSE [backgroundColor |-> withOpacity(value, config.bgOpacity),
          backgroundImage |-> StrV(GradientText(config.angle, withOpacity(value, config.opacity))),
          backgroundSize |-> StrV(SizeText(config.size))]

(***************************************************************************)
(* The inputs of the calls: colour strings put together from a prefix, an  *)
(* argument list and a closing parenthesis, and values of the other types. *)
(***************************************************************************)
Opacities == {0, 5, 50, 100}

Components == {<<"1">>, <<".", "5">>, <<"5", "%">>, <<"(", "1", ")">>}

RECURSIVE Join(_, _)
Join(parts, sep) ==
    IF Len(parts) = 0 THEN <<>>
    ELSE IF Len(parts) = 1 THEN parts[1]
    ELSE parts[1] \o sep \o Join(Tail(parts), sep)

ComponentLists == UNION {[1..n -> Components] : n \in 0..MaxComponents}

Prefixes == {OKLCH_PREFIX, HEX_PREFIX, RGB_PREFIX, RGBA_PREFIX, <<"h", "s", "l", "(">>}

\* oklch() separates its components by spaces, the other functions by commas
SeparatorOf(prefix) == IF prefix = OKLCH_PREFIX THEN <<" ">> ELSE <<",">>

FunctionStrings ==
    {prefix \o Join(cs, SeparatorOf(prefix)) \o closing :
        prefix \in Prefixes, cs \in ComponentLists, closing \in {<<>>, <<")">>}}

NamedStrings ==
    {<<>>, <<"#", "f", "0", "0">>, <<"#", "f", "f", "0", "0", "0", "0">>,
     <<"n", "o", "t", "a", "c", "o", "l", "o", "r">>, <<"r", "g", "b">>}

NonStrings == {NullV, UndefinedV, NumV(0), NumV(42), BoolV(TRUE), ObjV(<<>>)}

ColorInputs == {StrV(s) : s \in FunctionStrings \cup NamedStrings} \cup NonStrings

NotCalled == [t |-> "none"]
Returned(v) == [t |-> "return", v |-> v]

(***************************************************************************)
(* Specification SpecOpacity: one call of withOpacity(color, opacity).     *)
(***************************************************************************)
PluginIdle ==
    /\ themeColors = <<>>
    /\ options = [k \in {} |-> 0]
    /\ pc = "idle"
    /\ fi = 0
    /\ si = 0
    /\ previousColor = NullV
    /\ utilities = [k \in {} |-> 0]
    /\ added = NullV
    /\ lastAdd = NullV

OpacityIdle ==
    /\ woColor = NullV
    /\ woOpacity = 0
    /\ woOutcome = NotCalled

MatchIdle ==
    /\ mvValue = NullV
    /\ mvOutcome = NotCalled

InitOpacity ==
    /\ PluginIdle
    /\ MatchIdle
    /\ OtherIdle
    /\ woColor \in ColorInputs
    /\ woOpacity \in Opacities
    /\ woOutcome = NotCalled

CallWithOpacity ==
    /\ woOutcome = NotCalled
    /\ woOutcome' = Returned(withOpacity(woColor, woOpacity))
    /\ UNCHANGED <<woColor, woOpacity, pluginVars, mvVars, otherVars>>

NextOpacity == CallWithOpacity

SpecOpacity == InitOpacity /\ [][NextOpacity]_vars

(***************************************************************************)
(* Claims about withOpacity, checked under SpecOpacity.                    *)
(***************************************************************************)
\* The decimal text the claims expect for each opacity of the model
PercentText == (0 :> <<"0", "%">>) @@ (5 :> <<"5", "%">>) @@ (50 :> <<"5", "0", "%">>) @@ (100 :> <<"1", "0", "0", "%">>)
FractionText == (0 :> <<"0">>) @@ (5 :> <<"0", ".", "0", "5">>) @@ (50 :> <<"0", ".", "5">>) @@ (100 :> <<"1">>)

WoReturned == woOutcome.t = "return"
WoIsString == woColor.t = "string"
WoEndsWithParen == Len(woColor.s) > 0 /\ woColor.s[Len(woColor.s)] = ")"

\* C6 (as claimed): for every input beginning with `rgb(` and ending with
\* `)`, the result is the input with `rgb(` replaced by `rgba(` and the
\* final `)` replaced by `, <p/100>)`, every other character kept, also when
\* the argument list holds an earlier `)`.
C6_RgbFinalParenReplaced ==
    (WoReturned /\ WoIsString /\ StartsWith(woColor.s, RGB_PREFIX) /\ WoEndsWithParen)
        => woOutcome.v = StrV(RGBA_PREFIX \o SubSeq(woColor.s, 5, Len(woColor.s) - 1)
                                \o <<",", " ">> \o FractionText[woOpacity] \o <<")">>)

\* The comma-separated arguments of a colour function text `name(...)`,
\* name being n characters long
ArgsOf(s, n) == Split(SubSeq(s, n + 2, Len(s) - 1), <<",">>[1])

\* C7 (as claimed): for every input `rgba(` + three or four comma-separated
\* components + `)`, the result has the alpha component p/100 and the r, g
\* and b components of the input.
C7_RgbaAlphaOnly ==
    (WoReturned /\ WoIsString /\ StartsWith(woColor.s, RGBA_PREFIX) /\ WoEndsWithParen
        /\ Len(ArgsOf(woColor.s, 4)) \in {3, 4})
        => /\ woOutcome.v.t = "string"
           /\ Len(ArgsOf(woOutcome.v.s, 4)) = 4
           /\ ArgsOf(woOutcome.v.s, 4)[4] = FractionText[woOpacity]
           /\ \A k \in 1..3 : ArgsOf(woOutcome.v.s, 4)[k] = ArgsOf(woColor.s, 4)[k]

\* Position k starts the run of digits and decimal points that ends right
\* before a `)` ending s
IsTrailingRun(s, k) ==
    /\ k \in 2..(Len(s) - 1)
    /\ s[Len(s)] = ")"
    /\ \A m \in k..(Len(s) - 1) : s[m] \in Digits \cup {"."}
    /\ s[k - 1] \notin Digits \cup {"."}

\* C7 (amended): for every input beginning with `rgba(`, the result is the
\* input with the maximal run of digits and decimal points that stands right
\* before a `)` ending the string replaced by p/100, no other character
\* altered; an input that does not end with such a run and `)` (an alpha
\* written as a percentage, a missing `)`) is returned unchanged.
C7_RgbaTrailingRunReplaced ==
    (WoReturned /\ WoIsString /\ StartsWith(woColor.s, RGBA_PREFIX))
        => /\ \A k \in 1..Len(woColor.s) :
                IsTrailingRun(woColor.s, k)
                    => woOutcome.v = StrV(SubSeq(woColor.s, 1, k - 1)
                                            \o FractionText[woOpacity] \o <<")">>)
           /\ (\A k \in 1..Len(woColor.s) : ~IsTrailingRun(woColor.s, k))
                => woOutcome.v = woColor

\* C7 witness: rgba(1,1,1,.5) at opacity 5 has become rgba(1,1,1,0.05)
C7_Witness ==
    /\ woColor = StrV(<<"r", "g", "b", "a", "(", "1", ",", "1", ",", "1", ",", ".", "5", ")">>)
    /\ woOpacity = 5
    /\ woOutcome = Returned(StrV(<<"r", "g", "b", "a", "(", "1", ",", "1", ",", "1", ",", "0", ".", "0", "5", ")">>))

\* C8: for every input beginning with `#` the result is the input, unchanged,
\* followed by ` / <p>%`.
C8_HexAppendsPercent ==
    (WoReturned /\ WoIsString /\ Len(woColor.s) > 0 /\ woColor.s[1] = "#")
        => woOutcome.v = StrV(woColor.s \o <<" ", "/", " ">> \o PercentText[woOpacity])

\* C8 witness: #f00 at opacity 50 has become `#f00 / 50%`
C8_Witness ==
    /\ woColor = StrV(<<"#", "f", "0", "0">>)
    /\ woOpacity = 50
    /\ woOutcome = Returned(StrV(<<"#", "f", "0", "0", " ", "/", " ", "5", "0", "%">>))

\* The input is a string in one of the four recognised formats
Recognised(color) ==
    /\ color.t = "string"
    /\ \E prefix \in {<<"o", "k", "l", "c", "h", "(">>, <<"#">>, <<"r", "g", "b", "(">>, <<"r", "g", "b", "a", "(">>} :
            /\ Len(color.s) >= Len(prefix)
            /\ \A k \in 1..Len(prefix) : color.s[k] = prefix[k]

\* C9: withOpacity is total and returns a string for every input value of
\* every type, and `currentColor / <p>%` for every input that is not a
\* string beginning with `oklch(`, `#`, `rgb(` or `rgba(`.
C9_TotalWithFallback ==
    woOutcome # NotCalled =>
        /\ woOutcome.t = "return"
        /\ woOutcome.v.t = "string"
        /\ ~Recognised(woColor)
            => woOutcome.v.s = <<"c", "u", "r", "r", "e", "n", "t", "C", "o", "l", "o", "r", " ", "/", " ">> \o PercentText[woOpacity]

\* C9 witness: null at opacity 100 has become `currentColor / 100%`
C9_Witness ==
    /\ woColor = NullV
    /\ woOpacity = 100
    /\ woOutcome = Returned(StrV(<<"c", "u", "r", "r", "e", "n", "t", "C", "o", "l", "o", "r", " ", "/", " ", "1", "0", "0", "%">>))

(***************************************************************************)
(* Specification SpecMatch: one call of the 'bg-stripes' handler that the  *)
(* plugin registers with matchUtilities.                                   *)
(***************************************************************************)
OptionSets ==
    {[k \in {} |-> 0],
     [opacity |-> 100],
     [opacity |-> 0, bgOpacity |-> 5],
     [size |-> StrV(<<"4", "p", "x">>), angle |-> StrV(<<"4", "5", "d", "e", "g">>)]}

InitMatch ==
    /\ themeColors = <<>>
    /\ options \in OptionSets
    /\ pc = "idle"
    /\ fi = 0
    /\ si = 0
    /\ previousColor = NullV
    /\ utilities = [k \in {} |-> 0]
    /\ added = NullV
    /\ lastAdd = NullV
    /\ OpacityIdle
    /\ OtherIdle
    /\ mvValue \in ColorInputs
    /\ mvOutcome = NotCalled

CallBgStripes ==
    /\ mvOutcome = NotCalled
    /\ mvOutcome' = Returned(bgStripes(mvValue, Config(options)))
    /\ UNCHANGED <<mvValue, pluginVars, woVars, otherVars>>

NextMatch == CallBgStripes

SpecMatch == InitMatch /\ [][NextMatch]_vars

\* C10: the handler returns a record with no keys for every value that is
\* falsy or not a string, and a record with exactly the keys backgroundColor,
\* backgroundImage and backgroundSize for every non-empty string; it never
\* throws.
C10_EmptyOrThreeFields ==
    mvOutcome # NotCalled =>
        /\ mvOutcome.t = "return"
        /\ (mvValue.t = "string" /\ mvValue.s # <<>>)
            => DOMAIN mvOutcome.v = {"backgroundColor", "backgroundImage", "backgroundSize"}
        /\ (mvValue.t # "string" \/ mvValue.s = <<>>)
            => DOMAIN mvOutcome.v = {}

\* C10 witness: the handler was called with 42 and returned the empty record
C10_Witness ==
    /\ mvValue = NumV(42)
    /\ mvOutcome.t = "return"
    /\ DOMAIN mvOutcome.v = {}

(***************************************************************************)
(* The plugin function: the theme loop, addUtilities, matchUtilities.      *)
(***************************************************************************)
CLASS_PREFIX == <<".", "b", "g", "-", "s", "t", "r", "i", "p", "e", "s", "-">>
DEFAULT_SHADE == <<"D", "E", "F", "A", "U", "L", "T">>

\* An object with property key set to value
SetProperty(obj, key, value) == (key :> value) @@ obj

\* if (typeof color !== 'string' || !color) return: whether addColor goes on
addColorWrites(color) == ~(TypeOf(color) # "string" \/ ~Truthy(color))

\* An addColor that skips the strings withOpacity does not recognise
addColor_recognisedOnly(utils, name, color, prevColor, config) ==
    IF ~addColorWrites(color) THEN utils
    ELSE IF ~\E prefix \in {OKLCH_PREFIX, HEX_PREFIX, RGB_PREFIX, RGBA_PREFIX} :
                StartsWith(color.s, prefix)
    THEN utils
    ELSE SetProperty(utils, CLASS_PREFIX \o name,
            [backgroundColor |-> IF Truthy(prevColor)
                                 THEN withOpacity(prevColor, config.bgOpacity)
                                 ELSE withOpacity(color, config.bgOpacity),
             backgroundImage |->
                StrV(GradientText(config.angle, withOpacity(color, config.opacity))),
             backgroundSize |-> StrV(SizeText(config.size))])

\* An addColor whose fill takes the stripe's opacity
addColor_fillAtStripeOpacity(utils, name, color, prevColor, config) ==
    IF ~addColorWrites(color) THEN utils
    ELSE SetProperty(utils, CLASS_PREFIX \o name,
            [backgroundColor |-> IF Truthy(prevColor)
                                 THEN withOpacity(prevColor, config.bgOpacity)
                                 ELSE withOpacity(color, config.opacity),
             backgroundImage |->
                StrV(GradientText(config.angle, withOpacity(color, config.opacity))),
             backgroundSize |-> StrV(SizeText(config.size))])

\* addColor(name, color, prevColor): the utilities object after the call
addColor(utils, name, color, prevColor, config) ==
    IF ~addColorWrites(color) THEN utils
    ELSE LET stripeColor == withOpacity(color, config.opacity)
             bgColor == IF Truthy(prevColor)
                        THEN withOpacity(prevColor, config.bgOpacity)
                        ELSE withOpacity(color, config.bgOpacity)
         IN  SetProperty(utils, CLASS_PREFIX \o name,
                [backgroundColor |-> bgColor,
                 backgroundImage |-> StrV(GradientText(config.angle, stripeColor)),
                 backgroundSize |-> StrV(SizeText(config.size))])

\* A colorKey that gives the DEFAULT shade a suffix like any other
colorKey_suffixAlways(name, shade) == name \o <<"-">> \o shade

\* A colorKey that forgets the shade
colorKey_familyOnly(name, shade) == name

\* const colorKey = shade === 'DEFAULT' ? name : `${name}-${shade}`
colorKey(name, shade) == IF shade = DEFAULT_SHADE THEN name ELSE name \o <<"-">> \o shade

\* A shade test that forgets the typeof check
shadeSkipped_falsyOnly(color) == ~Truthy(color)

\* if (!color || typeof color !== 'string') continue
shadeSkipped(color) == ~Truthy(color) \/ TypeOf(color) # "string"

\* The record of an addColor call, kept when the call wrote an entry
AddRecord(family, shade, name, color) ==
    IF addColorWrites(color)
    THEN [family |-> family, shade |-> shade, key |-> CLASS_PREFIX \o name]
    ELSE lastAdd

\* The entries the loops are at
Families == themeColors.entries
FamilyName == Families[fi][1]
FamilyValue == Families[fi][2]
Shades == FamilyValue.entries
ShadeName == Shades[si][1]
ShadeColor == Shades[si][2]

\* if (themeColors && typeof themeColors === 'object'): the loop is entered
EnterThemeLoop ==
    /\ pc = "start"
    /\ Truthy(themeColors) /\ TypeOf(themeColors) = "object"
    /\ pc' = "theme"
    /\ fi' = 1
    /\ UNCHANGED <<themeColors, options, si, previousColor, utilities, added, lastAdd,
                   woVars, mvVars, otherVars>>

\* ... or not
SkipThemeLoop ==
    /\ pc = "start"
    /\ ~(Truthy(themeColors) /\ TypeOf(themeColors) = "object")
    /\ pc' = "add"
    /\ UNCHANGED <<themeColors, options, fi, si, previousColor, utilities, added, lastAdd,
                   woVars, mvVars, otherVars>>

\* if (!value) continue
SkipFamily ==
    /\ pc = "theme" /\ fi <= Len(Families)
    /\ ~Truthy(FamilyValue)
    /\ fi' = fi + 1
    /\ UNCHANGED <<themeColors, options, pc, si, previousColor, utilities, added, lastAdd,
                   woVars, mvVars, otherVars>>

\* typeof value === 'string': addColor(name, value)
DirectColor ==
    /\ pc = "theme" /\ fi <= Len(Families)
    /\ Truthy(FamilyValue) /\ TypeOf(FamilyValue) = "string"
    /\ utilities' = addColor(utilities, FamilyName, FamilyValue, NullV, Config(options))
    /\ lastAdd' = AddRecord(fi, 0, FamilyName, FamilyValue)
    /\ fi' = fi + 1
    /\ UNCHANGED <<themeColors, options, pc, si, previousColor, added, woVars, mvVars, otherVars>>

\* typeof value === 'object': let previousColor = null, and the scale loop starts
EnterScale ==
    /\ pc = "theme" /\ fi <= Len(Families)
    /\ Truthy(FamilyValue) /\ TypeOf(FamilyValue) # "string" /\ TypeOf(FamilyValue) = "object"
    /\ previousColor' = NullV
    /\ si' = 1
    /\ pc' = "scale"
    /\ UNCHANGED <<themeColors, options, fi, utilities, added, lastAdd, woVars, mvVars, otherVars>>

\* An else branch that leaves the theme loop
OtherFamily_break ==
    /\ pc = "theme" /\ fi <= Len(Families)
    /\ Truthy(FamilyValue) /\ TypeOf(FamilyValue) # "string" /\ TypeOf(FamilyValue) # "object"
    /\ pc' = "add"
    /\ UNCHANGED <<themeColors, options, fi, si, previousColor, utilities, added, lastAdd,
                   woVars, mvVars, otherVars>>

\* A truthy value that is neither a string nor an object: nothing is done
OtherFamily ==
    /\ pc = "theme" /\ fi <= Len(Families)
    /\ Truthy(FamilyValue) /\ TypeOf(FamilyValue) # "string" /\ TypeOf(FamilyValue) # "object"
    /\ fi' = fi + 1
    /\ UNCHANGED <<themeColors, options, pc, si, previousColor, utilities, added, lastAdd,
                   woVars, mvVars, otherVars>>

\* if (!color || typeof color !== 'string') continue
SkipShade ==
    /\ pc = "scale" /\ si <= Len(Shades)
    /\ shadeSkipped(ShadeColor)
    /\ si' = si + 1
    /\ UNCHANGED <<themeColors, options, pc, fi, previousColor, utilities, added, lastAdd,
                   woVars, mvVars, otherVars>>

\* addColor(colorKey, color, previousColor); previousColor = color
AddShade ==
    /\ pc = "scale" /\ si <= Len(Shades)
    /\ ~shadeSkipped(ShadeColor)
    /\ utilities' = addColor(utilities, colorKey(FamilyName, ShadeName), ShadeColor,
                             previousColor, Config(options))
    /\ lastAdd' = AddRecord(fi, si, colorKey(FamilyName, ShadeName), ShadeColor)
    /\ previousColor' = ShadeColor
    /\ si' = si + 1
    /\ UNCHANGED <<themeColors, options, pc, fi, added, woVars, mvVars, otherVars>>

\* The scale loop is through: on to the next family
ExitScale ==
    /\ pc = "scale" /\ si > Len(Shades)
    /\ pc' = "theme"
    /\ fi' = fi + 1
    /\ UNCHANGED <<themeColors, options, si, previousColor, utilities, added, lastAdd,
                   woVars, mvVars, otherVars>>

\* The theme loop is through
ExitThemeLoop ==
    /\ pc = "theme" /\ fi > Len(Families)
    /\ pc' = "add"
    /\ UNCHANGED <<themeColors, options, fi, si, previousColor, utilities, added, lastAdd,
                   woVars, mvVars, otherVars>>

\* addUtilities(utilities)
AddUtilities ==
    /\ pc = "add"
    /\ added' = utilities
    /\ pc' = "match"
    /\ UNCHANGED <<themeColors, options, fi, si, previousColor, utilities, lastAdd,
                   woVars, mvVars, otherVars>>

\* matchUtilities({ 'bg-stripes': ... }): the handler is registered and the
\* plugin function returns
MatchUtilities ==
    /\ pc = "match"
    /\ pc' = "done"
    /\ UNCHANGED <<themeColors, options, fi, si, previousColor, utilities, added, lastAdd,
                   woVars, mvVars, otherVars>>

(***************************************************************************)
(* The colour tables of the model: every table of one or two families and  *)
(* at most MaxCells cells (a family is one cell, each shade of a scale one *)
(* more) over the names and values below, the tables the specification     *)
(* names, and themes whose colours are no table at all.                    *)
(***************************************************************************)
FamilyNames == {<<"a">>, <<"a", "-", "b">>}
ShadeNames == {<<"b">>, <<"4">>, DEFAULT_SHADE}

HEX_RED == <<"#", "f", "0", "0">>
HEX_BLUE == <<"#", "0", "0", "f">>
NOT_A_COLOR == <<"b", "l", "u", "e">>

DirectValues ==
    {StrV(HEX_RED), StrV(NOT_A_COLOR), StrV(<<>>), NullV, UndefinedV, NumV(0), NumV(42),
     BoolV(TRUE)}
ShadeValues == {StrV(HEX_RED), StrV(HEX_BLUE), StrV(NOT_A_COLOR), StrV(<<>>), NumV(7)}

Distinct(seq) == \A m, n \in 1..Len(seq) : m # n => seq[m][1] # seq[n][1]

ScalesOf(k) ==
    IF k > Cardinality(ShadeNames) THEN {}
    ELSE {ObjV(e) : e \in {e \in [1..k -> ShadeNames \X ShadeValues] : Distinct(e)}}

\* The family values of c cells, for each c: a value that is no scale is one
\* cell, a scale of k shades is 1 + k cells
ValuesOfCost ==
    [c \in 1..MaxCells |-> IF c = 1 THEN DirectValues \cup ScalesOf(0) ELSE ScalesOf(c - 1)]

\* themeColors is a table of one or two families of at most MaxCells cells
GeneratedTable ==
    \/ \E n1 \in FamilyNames, c1 \in 1..MaxCells :
        \E v1 \in ValuesOfCost[c1] :
            themeColors = ObjV(<<<<n1, v1>>>>)
    \/ \E n1 \in FamilyNames, c1 \in 1..MaxCells :
        \E n2 \in FamilyNames \ {n1}, c2 \in 1..(MaxCells - c1) :
            \E v1 \in ValuesOfCost[c1], v2 \in ValuesOfCost[c2] :
                themeColors = ObjV(<<<<n1, v1>>, <<n2, v2>>>>)

\* { red: "#ff0000", blue: { "400": "#60a5fa", "500": "#3b82f6" } }
ExampleTable ==
    <<<<<<"r", "e", "d">>, StrV(<<"#", "f", "f", "0", "0", "0", "0">>)>>,
      <<<<"b", "l", "u", "e">>, ObjV(<<<<<<"4", "0", "0">>, StrV(<<"#", "6", "0", "a", "5", "f", "a">>)>>, <<<<"5", "0", "0">>, StrV(<<"#", "3", "b", "8", "2", "f", "6">>)>>>>)>>>>

\* { gray: { DEFAULT: "#000000", "100": "#111111" } }
GrayTable ==
    <<<<<<"g", "r", "a", "y">>, ObjV(<<<<DEFAULT_SHADE, StrV(<<"#", "0", "0", "0", "0", "0", "0">>)>>, <<<<"1", "0", "0">>, StrV(<<"#", "1", "1", "1", "1", "1", "1">>)>>>>)>>>>

\* { DEFAULT: "#f00" }
DefaultFamilyTable == <<<<DEFAULT_SHADE, StrV(HEX_RED)>>>>

\* The other themes: the tables the specification names, the empty table,
\* and colours that are no table at all
NamedThemes ==
    {ObjV(<<>>), ObjV(ExampleTable), ObjV(GrayTable), ObjV(DefaultFamilyTable),
     NullV, UndefinedV, StrV(HEX_RED)}

PluginOptions == {[k \in {} |-> 0], [opacity |-> 100, bgOpacity |-> 5]}

Init ==
    /\ themeColors \in NamedThemes \/ GeneratedTable
    /\ options \in PluginOptions
    /\ pc = "start"
    /\ fi = 0
    /\ si = 0
    /\ previousColor = NullV
    /\ utilities = EmptyObject
    /\ added = NullV
    /\ lastAdd = NullV
    /\ OpacityIdle
    /\ MatchIdle
    /\ OtherIdle

Next ==
    \/ EnterThemeLoop
    \/ SkipThemeLoop
    \/ SkipFamily
    \/ DirectColor
    \/ EnterScale
    \/ OtherFamily
    \/ SkipShade
    \/ AddShade
    \/ ExitScale
    \/ ExitThemeLoop
    \/ AddUtilities
    \/ MatchUtilities

Spec == Init /\ [][Next]_vars

(***************************************************************************)
(* Specification SpecPasses: the build calls the plugin function again and *)
(* again (one call per build pass), each time with the table and the       *)
(* options of that pass.  Every call starts with its own locals (const     *)
(* config, const utilities = {}, const themeColors).                       *)
(***************************************************************************)
\* { a: null, a-b: 42, gray: { b: 7, 4: "#f00", DEFAULT: "#00f" } }
MixedTable ==
    <<<<<<"a">>, NullV>>,
      <<<<"a", "-", "b">>, NumV(42)>>,
      <<<<"g", "r", "a", "y">>, ObjV(<<<<<<"b">>, NumV(7)>>, <<<<"4">>, StrV(HEX_RED)>>, <<DEFAULT_SHADE, StrV(HEX_BLUE)>>>>)>>>>

PassTables == {NullV, ObjV(ExampleTable), ObjV(GrayTable), ObjV(MixedTable)}

InitPasses ==
    /\ themeColors \in PassTables
    /\ options \in PluginOptions
    /\ pc = "start"
    /\ fi = 0
    /\ si = 0
    /\ previousColor = NullV
    /\ utilities = EmptyObject
    /\ added = NullV
    /\ lastAdd = NullV
    /\ OpacityIdle
    /\ MatchIdle
    /\ PassIdle
    /\ BrowserIdle

\* A plugin whose utilities object lives outside the plugin function
NextPass_sharedUtilities ==
    /\ pc = "done" /\ passes < MaxPasses
    /\ history' = history \cup {[table |-> themeColors, options |-> options, result |-> added]}
    /\ passes' = passes + 1
    /\ themeColors' \in PassTables
    /\ options' \in PluginOptions
    /\ pc' = "start"
    /\ fi' = 0
    /\ si' = 0
    /\ previousColor' = NullV
    /\ added' = NullV
    /\ lastAdd' = NullV
    /\ UNCHANGED <<utilities, woVars, mvVars, browserVars>>

\* The plugin function has returned and is called for the next pass:
\* const config = ..., const utilities = {}, const themeColors = theme('colors')
NextPass ==
    /\ pc = "done" /\ passes < MaxPasses
    /\ history' = history \cup {[table |-> themeColors, options |-> options, result |-> added]}
    /\ passes' = passes + 1
    /\ themeColors' \in PassTables
    /\ options' \in PluginOptions
    /\ pc' = "start"
    /\ fi' = 0
    /\ si' = 0
    /\ previousColor' = NullV
    /\ utilities' = EmptyObject
    /\ added' = NullV
    /\ lastAdd' = NullV
    /\ UNCHANGED <<woVars, mvVars, browserVars>>

NextPasses ==
    \/ Next
    \/ NextPass

SpecPasses == InitPasses /\ [][NextPasses]_vars

(***************************************************************************)
(* Claims about the table-driven pass, checked under Spec.                 *)
(***************************************************************************)
IsTable == themeColors.t = "object"
\* A non-empty string
ValidColor(v) == v.t = "string" /\ v.s # <<>>
\* The shades of family f whose colour is a non-empty string
ValidShades(f) ==
    IF Families[f][2].t # "object" THEN {}
    ELSE {m \in 1..Len(Families[f][2].entries) : ValidColor(Families[f][2].entries[m][2])}
\* The colour of family f (shade 0) or of its shade sh
TableColor(f, sh) == IF sh = 0 THEN Families[f][2] ELSE Families[f][2].entries[sh][2]
\* The emitted shades of family f before shade sh
EmittedBefore(f, sh) == {m \in ValidShades(f) : m < sh}
LastOf(set) == CHOOSE m \in set : \A n \in set : n <= m
\* The colour the claim takes the fill of (f, sh) from
FillSource(f, sh) ==
    IF sh = 0 \/ EmittedBefore(f, sh) = {} THEN TableColor(f, sh)
    ELSE TableColor(f, LastOf(EmittedBefore(f, sh)))

\* C1: the fill of every emitted entry is withOpacity(previousColor,
\* bgOpacity), previousColor being the colour of the most recent earlier
\* emitted shade of the same scale; skipped shades never become
\* previousColor; the first emitted shade of a scale and every single-colour
\* family use their own colour; previousColor never carries over from one
\* family to the next.
C1_FillFromPreviousEmitted ==
    /\ lastAdd # NullV =>
            utilities[lastAdd.key].backgroundColor
                = withOpacity(FillSource(lastAdd.family, lastAdd.shade),
                              Config(options).bgOpacity)
    /\ pc = "scale" =>
            previousColor = IF EmittedBefore(fi, si) = {} THEN NullV
                            ELSE TableColor(fi, LastOf(EmittedBefore(fi, si)))

\* C1 witness: the third shade of a scale was emitted after a skipped second
\* shade, and its fill is the first shade's #f00 at the default bgOpacity
C1_Witness ==
    /\ lastAdd # NullV
    /\ lastAdd.shade = 3
    /\ options = [k \in {} |-> 0]
    /\ TableColor(lastAdd.family, 1) = StrV(HEX_RED)
    /\ ~ValidColor(TableColor(lastAdd.family, 2))
    /\ TableColor(lastAdd.family, 3) = StrV(HEX_BLUE)
    /\ utilities[lastAdd.key].backgroundColor = StrV(<<"#", "f", "0", "0", " ", "/", " ", "1", "0", "%">>)

\* The keys the claim expects of family f, with the given class prefix
KeysOfFamily(prefix, f) ==
    IF ValidColor(Families[f][2]) THEN {prefix \o Families[f][1]}
    ELSE {IF Families[f][2].entries[m][1] = <<"D", "E", "F", "A", "U", "L", "T">>
          THEN prefix \o Families[f][1]
          ELSE prefix \o Families[f][1] \o <<"-">> \o Families[f][2].entries[m][1] :
            m \in ValidShades(f)}
KeysOfTable(prefix) ==
    IF IsTable THEN UNION {KeysOfFamily(prefix, f) : f \in 1..Len(Families)} ELSE {}
EndsWith(s, suffix) ==
    Len(s) >= Len(suffix) /\ SubSeq(s, Len(s) - Len(suffix) + 1, Len(s)) = suffix

\* C2 (as claimed): the keys are `bg-stripes-<family>` for a single colour
\* and for the shade DEFAULT, `bg-stripes-<family>-<shade>` for every other
\* shade; no key ends with DEFAULT; the example table gives exactly
\* {bg-stripes-red, bg-stripes-blue-400, bg-stripes-blue-500}.
C2_KeysAsClaimed ==
    pc = "done" =>
        /\ DOMAIN added = KeysOfTable(<<"b", "g", "-", "s", "t", "r", "i", "p", "e", "s", "-">>)
        /\ \A key \in DOMAIN added : ~EndsWith(key, <<"D", "E", "F", "A", "U", "L", "T">>)
        /\ themeColors = ObjV(ExampleTable)
            => DOMAIN added = {<<"b", "g", "-", "s", "t", "r", "i", "p", "e", "s", "-", "r", "e", "d">>, <<"b", "g", "-", "s", "t", "r", "i", "p", "e", "s", "-", "b", "l", "u", "e", "-", "4", "0", "0">>, <<"b", "g", "-", "s", "t", "r", "i", "p", "e", "s", "-", "b", "l", "u", "e", "-", "5", "0", "0">>}

\* C2 (amended): the keys are the class selectors `.bg-stripes-<family>` for
\* a single colour and for the shade DEFAULT, which adds no suffix, and
\* `.bg-stripes-<family>-<shade>` for every other shade; the example table
\* gives exactly {.bg-stripes-red, .bg-stripes-blue-400, .bg-stripes-blue-500}.
C2_KeysWithDot ==
    pc = "done" =>
        /\ DOMAIN added = KeysOfTable(<<".", "b", "g", "-", "s", "t", "r", "i", "p", "e", "s", "-">>)
        /\ themeColors = ObjV(ExampleTable)
            => DOMAIN added = {<<".", "b", "g", "-", "s", "t", "r", "i", "p", "e", "s", "-", "r", "e", "d">>, <<".", "b", "g", "-", "s", "t", "r", "i", "p", "e", "s", "-", "b", "l", "u", "e", "-", "4", "0", "0">>, <<".", "b", "g", "-", "s", "t", "r", "i", "p", "e", "s", "-", "b", "l", "u", "e", "-", "5", "0", "0">>}

\* C2 witness: the pass over the gray table is done, with the keys
\* .bg-stripes-gray and .bg-stripes-gray-100
C2_Witness ==
    /\ pc = "done"
    /\ themeColors = ObjV(GrayTable)
    /\ DOMAIN added = {<<".", "b", "g", "-", "s", "t", "r", "i", "p", "e", "s", "-", "g", "r", "a", "y">>, <<".", "b", "g", "-", "s", "t", "r", "i", "p", "e", "s", "-", "g", "r", "a", "y", "-", "1", "0", "0">>}

\* The number of non-empty-string colour values in the families from f on
RECURSIVE ValidCount(_)
ValidCount(f) ==
    IF f > Len(Families) THEN 0
    ELSE (IF ValidColor(Families[f][2]) THEN 1 ELSE Cardinality(ValidShades(f)))
            + ValidCount(f + 1)

\* C3 (as claimed): the family names being distinct and the shade names
\* distinct within each scale, the result has as many entries as the table
\* has non-empty-string colour values.
C3_OneEntryPerColor ==
    (pc = "done" /\ IsTable) => Cardinality(DOMAIN added) = ValidCount(1)

\* No family name begins with the name of another family that is a scale,
\* followed by `-`
NoPrefixClash ==
    \A f, g \in 1..Len(Families) :
        (f # g /\ Families[g][2].t = "object")
            => ~(/\ Len(Families[f][1]) > Len(Families[g][1])
                 /\ SubSeq(Families[f][1], 1, Len(Families[g][1])) = Families[g][1]
                 /\ Families[f][1][Len(Families[g][1]) + 1] = "-")

\* C3 (amended): the same, for the tables in which no family name begins
\* with `<N>-`, N the name of another family that is a scale.
C3_OneEntryPerColorNoClash ==
    (pc = "done" /\ IsTable /\ NoPrefixClash) => Cardinality(DOMAIN added) = ValidCount(1)

\* C3 witness: the pass over the example table is done with three entries
C3_Witness ==
    /\ pc = "done"
    /\ themeColors = ObjV(ExampleTable)
    /\ NoPrefixClash
    /\ Cardinality(DOMAIN added) = 3

\* A family value that is neither a string nor an object
InvalidFamily(v) == v.t \notin {"string", "object"}
AtFamily == pc = "theme" /\ fi <= Len(Families)

\* C4: a family whose value is null, undefined, a number or of another type
\* that is neither string nor object adds no entry and raises no error: its
\* step changes nothing but the loop's position, which moves to the next
\* family, so that the families after it are processed as without it.
C4_InvalidFamilyIgnored ==
    [][(AtFamily /\ InvalidFamily(FamilyValue))
        => /\ pc' = "theme"
           /\ fi' = fi + 1
           /\ UNCHANGED <<themeColors, options, utilities, added, lastAdd, previousColor>>]_vars

\* C4 witness: the first family was invalid and the second has written an entry
C4_Witness ==
    /\ pc = "theme"
    /\ fi = 3
    /\ InvalidFamily(Families[1][2])
    /\ lastAdd # NullV
    /\ lastAdd.family = 2
    /\ DOMAIN utilities # {}

\* C5 (as claimed): a colour value of the wrong type, or a string in none
\* of the recognised formats, is skipped: every entry written comes from a
\* string in a recognised format.
C5_MalformedSkipped ==
    lastAdd # NullV => Recognised(TableColor(lastAdd.family, lastAdd.shade))

\* C5 (amended): a colour value of the wrong type, or the empty string, is
\* skipped and the pass goes on; a non-empty string in none of the recognised
\* formats is not skipped: it gets an entry, whose stripe is the fallback
\* `currentColor / <opacity>%`.
C5_WrongTypeSkippedOnly ==
    /\ lastAdd # NullV => ValidColor(TableColor(lastAdd.family, lastAdd.shade))
    /\ pc \in {"theme", "scale"} =>
            \A f \in 1..(fi - 1) : KeysOfFamily(CLASS_PREFIX, f) \subseteq DOMAIN utilities
    /\ (lastAdd # NullV /\ ~Recognised(TableColor(lastAdd.family, lastAdd.shade)))
            => utilities[lastAdd.key].backgroundImage
                = StrV(<<"l", "i", "n", "e", "a", "r", "-", "g", "r", "a", "d", "i", "e", "n", "t", "(">> \o Config(options).angle.s \o <<",", " ">>
                        \o <<"c", "u", "r", "r", "e", "n", "t", "C", "o", "l", "o", "r", " ", "/", " ">> \o PercentText[Config(options).opacity] \o <<" ", "1", "0", "%", ",", " ", "t", "r", "a", "n", "s", "p", "a", "r", "e", "n", "t", " ", "0", ",", " ", "t", "r", "a", "n", "s", "p", "a", "r", "e", "n", "t", " ", "5", "0", "%", ",", " ">>
                        \o <<"c", "u", "r", "r", "e", "n", "t", "C", "o", "l", "o", "r", " ", "/", " ">> \o PercentText[Config(options).opacity] \o <<" ", "0", ",", " ">>
                        \o <<"c", "u", "r", "r", "e", "n", "t", "C", "o", "l", "o", "r", " ", "/", " ">> \o PercentText[Config(options).opacity] \o <<" ", "6", "0", "%", ",", " ", "t", "r", "a", "n", "s", "p", "a", "r", "e", "n", "t", " ", "0", ",", " ", "t", "r", "a", "n", "s", "p", "a", "r", "e", "n", "t", ")">>)

\* C5 witness: the single-colour family `blue`-valued (no recognised format)
\* has an entry with the fallback fill
C5_Witness ==
    /\ lastAdd # NullV
    /\ lastAdd.shade = 0
    /\ TableColor(lastAdd.family, 0) = StrV(NOT_A_COLOR)
    /\ options = [k \in {} |-> 0]
    /\ utilities[lastAdd.key].backgroundColor = StrV(<<"c", "u", "r", "r", "e", "n", "t", "C", "o", "l", "o", "r", " ", "/", " ", "1", "0", "%">>)

\* C11: the table-driven pass and the on-demand handler agree: the record
\* written for a single-colour family, and the record written for the first
\* emitted shade of a scale, is the record the 'bg-stripes' handler returns
\* for the same colour under the same config.
C11_PathsAgree ==
    (lastAdd # NullV /\ (lastAdd.shade = 0 \/ EmittedBefore(lastAdd.family, lastAdd.shade) = {}))
        => utilities[lastAdd.key]
            = bgStripes(TableColor(lastAdd.family, lastAdd.shade), Config(options))

\* C11 witness: the second shade of a scale, #00f, is the first one emitted
\* (the first was skipped), and its record has #00f as fill and as stripe
C11_Witness ==
    /\ lastAdd # NullV
    /\ lastAdd.shade = 2
    /\ EmittedBefore(lastAdd.family, 2) = {}
    /\ TableColor(lastAdd.family, 2) = StrV(HEX_BLUE)
    /\ options = [opacity |-> 100, bgOpacity |-> 5]
    /\ utilities[lastAdd.key].backgroundColor = StrV(<<"#", "0", "0", "f", " ", "/", " ", "5", "%">>)
    /\ utilities[lastAdd.key] = bgStripes(StrV(HEX_BLUE), Config(options))

\* C12: the plugin function is deterministic and stateless across calls: a
\* call with the table and the options of an earlier call, whatever calls
\* came in between, hands addUtilities the same map, key for key and value
\* for value; and no call modifies its table.
C12_SameInputsSameMap ==
    /\ [](pc = "done" =>
            \A h \in history :
                (h.table = themeColors /\ h.options = options) => h.result = added)
    /\ [][pc # "done" => themeColors' = themeColors]_vars

\* C12 witness: the third call got the example table again after a call with
\* the gray table, and has produced the three entries of the first call
C12_Witness ==
    /\ pc = "done"
    /\ passes = 2
    /\ themeColors = ObjV(ExampleTable)
    /\ Cardinality(DOMAIN added) = 3
    /\ \E h \in history : h.table = ObjV(ExampleTable) /\ h.options = options /\ h.result = added
    /\ \E h \in history : h.table = ObjV(GrayTable)

(***************************************************************************)
(* The quote client (class QuoteClient): getQuotes, its cache in           *)
(* localStorage, and fetchWithTimeout.  Time is Date.now() in              *)
(* milliseconds.  The calls of getQuotes follow one another.  A timer      *)
(* fires at or after its due time, never before; aborting a fetch or a     *)
(* body read that is still pending makes it reject.                        *)
(***************************************************************************)
\* At most this many advances of the clock.
MaxTicks == 2
\* At most this many getQuotes calls.
MaxCalls == 2

HTTP_TIMEOUT == 5000
CACHE_DURATION == 60 * 60 * 1000

\* The clock advances by one of these
Deltas == {HTTP_TIMEOUT, CACHE_DURATION}
\* The timeout arguments of getQuotes
Timeouts == {HTTP_TIMEOUT}
\* The quote lists a request can deliver
Responses == {<<"q1">>, <<"q2", "q3">>}

\* localStorage.getItem(key) of a key that is not there
NoItem == [t |-> "none"]
\* JSON.stringify(value): a text that JSON.parse turns into value again
JSONStringify(value) == [t |-> "text", json |-> TRUE, value |-> value]
\* A stored text that is no JSON: JSON.parse throws
NOT_JSON == [t |-> "text", json |-> FALSE, value |-> NullV]
\* An array
ArrV(items) == [t |-> "object", items |-> items]
\* const cacheItem: CacheItem = { timestamp, data }
CacheItem(timestamp, data) == [timestamp |-> timestamp, data |-> ArrV(data)]

\* A validity test that lets an entry of exactly one hour pass
isCacheValid_inclusive(cacheItem, time) == time - cacheItem.timestamp <= CACHE_DURATION

\* return Date.now() - cacheItem.timestamp < this.CACHE_DURATION
isCacheValid(cacheItem, time) == time - cacheItem.timestamp < CACHE_DURATION

\* getFromCache(key): what it returns and what it leaves in localStorage
getFromCache(store, time) ==
    IF store = NoItem THEN [value |-> NullV, storage |-> store]
    ELSE IF ~store.json THEN [value |-> NullV, storage |-> store]
    ELSE IF ~isCacheValid(store.value, time) THEN [value |-> NullV, storage |-> NoItem]
    ELSE [value |-> store.value.data, storage |-> store]

\* saveToCache(key, data): localStorage after the call; setItem can throw
\* (the quota), which saveToCache catches
saveToCache(store, data, time, setItemThrows) ==
    IF setItemThrows THEN store ELSE JSONStringify(CacheItem(time, data))

\* clearTimeout(id): a timer that has not fired is cancelled
clearTimeout(timer) == IF timer = "armed" THEN "cleared" ELSE timer

\* A fetchWithTimeout without its finally block
Finally_absent(r) == r

\* finally { clearTimeout(id) }
Finally(r) == [r EXCEPT !.timer = clearTimeout(@)]

\* const combinedResponses = responses.flat()
combinedResponses(r) == r[1].data \o r[2].data

Pending(r) == r.st \in {"fetching", "reading"}
Settled(r) == r.st \in {"fulfilled", "rejected"}

\* A getQuotes that stores what it has as soon as one request has succeeded
AfterSettle_savesPartial(r, setItemThrows) ==
    IF gq.st # "pending" THEN <<gq, storage>>
    ELSE IF \E i \in 1..2 : r[i].st = "fulfilled"
    THEN <<[gq EXCEPT !.st = IF \E i \in 1..2 : r[i].st = "rejected" THEN "rejected"
                              ELSE IF \A i \in 1..2 : r[i].st = "fulfilled" THEN "resolved"
                              ELSE "pending",
                      !.value = combinedResponses(r), !.doneAt = now],
           IF gq.useCache THEN saveToCache(storage, combinedResponses(r), now, setItemThrows)
           ELSE storage>>
    ELSE IF \E i \in 1..2 : r[i].st = "rejected"
    THEN <<[gq EXCEPT !.st = "rejected", !.doneAt = now], storage>>
    ELSE <<gq, storage>>

\* await Promise.all(requests) and what follows it, once a request has
\* settled: the getQuotes call and localStorage afterwards
AfterSettle(r, setItemThrows) ==
    IF gq.st # "pending" THEN <<gq, storage>>
    ELSE IF \E i \in 1..2 : r[i].st = "rejected"
    THEN <<[gq EXCEPT !.st = "rejected", !.doneAt = now], storage>>
    ELSE IF \A i \in 1..2 : r[i].st = "fulfilled"
    THEN <<[gq EXCEPT !.st = "resolved", !.value = combinedResponses(r), !.doneAt = now],
           IF gq.useCache THEN saveToCache(storage, combinedResponses(r), now, setItemThrows)
           ELSE storage>>
    ELSE <<gq, storage>>

\* The cache entries localStorage can hold at the start: none, a text that
\* is no JSON, an entry saved at a time from 0 to CACHE_DURATION, and an
\* entry with an empty list
InitialStorage ==
    {NoItem, NOT_JSON, JSONStringify(CacheItem(CACHE_DURATION, <<>>))}
        \cup {JSONStringify(CacheItem(ts, <<"q0">>)) : ts \in {0, 1, CACHE_DURATION}}

InitClient ==
    /\ PluginIdle
    /\ OpacityIdle
    /\ MatchIdle
    /\ PassIdle
    /\ AppIdle
    /\ DebounceIdle
    /\ storage \in InitialStorage
    /\ now = CACHE_DURATION
    /\ ticks = 0
    /\ calls = 0
    /\ gq = [st |-> "idle", useCache |-> FALSE, value |-> <<>>, http |-> 0,
             before |-> NoItem, at |-> 0, afterRead |-> NoItem, doneAt |-> 0]
    /\ req = [i \in 1..2 |-> NoRequest]

\* Time passes
Tick ==
    /\ ticks < MaxTicks
    /\ \E d \in Deltas : now' = now + d
    /\ ticks' = ticks + 1
    /\ UNCHANGED <<storage, calls, gq, req, nonClientVars>>

\* getQuotes(timeout, useCache) up to its await: the cached list is returned,
\* or the two requests are started
GetQuotes ==
    /\ calls < MaxCalls
    /\ gq.st # "pending"
    /\ \A i \in 1..2 : ~Pending(req[i])
    /\ calls' = calls + 1
    /\ \E timeout \in Timeouts, useCache \in BOOLEAN :
        LET read == IF useCache THEN getFromCache(storage, now)
                    ELSE [value |-> NullV, storage |-> storage]
        IN  /\ storage' = read.storage
            /\ IF useCache /\ Truthy(read.value)
               THEN /\ gq' = [st |-> "resolved", useCache |-> useCache,
                              value |-> read.value.items, http |-> 0,
                              before |-> storage, at |-> now,
                              afterRead |-> read.storage, doneAt |-> now]
                    /\ req' = [i \in 1..2 |-> NoRequest]
               ELSE /\ gq' = [st |-> "pending", useCache |-> useCache,
                              value |-> <<>>, http |-> 2,
                              before |-> storage, at |-> now,
                              afterRead |-> read.storage, doneAt |-> 0]
                    /\ req' = [i \in 1..2 |->
                                [st |-> "fetching", timer |-> "armed", due |-> now + timeout,
                                 aborted |-> FALSE, data |-> <<>>]]
    /\ UNCHANGED <<now, ticks, nonClientVars>>

\* A request has settled: its state, then Promise.all and the rest of getQuotes
SettleRequest(i, r, setItemThrows) ==
    LET requests == [req EXCEPT ![i] = r]
        after == AfterSettle(requests, setItemThrows)
    IN  /\ req' = requests
        /\ gq' = after[1]
        /\ storage' = after[2]
        /\ UNCHANGED <<now, ticks, calls, nonClientVars>>

\* fetch resolves with a response whose ok is true: on to response.json()
ResponseOk(i) ==
    /\ req[i].st = "fetching" /\ ~req[i].aborted
    /\ req' = [req EXCEPT ![i].st = "reading"]
    /\ UNCHANGED <<storage, now, ticks, calls, gq, nonClientVars>>

\* fetch resolves with a response whose ok is false: throw new Error(...)
ResponseNotOk(i) ==
    /\ req[i].st = "fetching" /\ ~req[i].aborted
    /\ SettleRequest(i, Finally([req[i] EXCEPT !.st = "rejected"]), FALSE)

\* fetch rejects (the network), or response.json() rejects (the body)
RequestFails(i) ==
    /\ Pending(req[i]) /\ ~req[i].aborted
    /\ SettleRequest(i, Finally([req[i] EXCEPT !.st = "rejected"]), FALSE)

\* response.json() resolves: return the data
BodyRead(i) ==
    /\ req[i].st = "reading" /\ ~req[i].aborted
    /\ \E data \in Responses, setItemThrows \in BOOLEAN :
        SettleRequest(i, Finally([req[i] EXCEPT !.st = "fulfilled", !.data = data]),
                      setItemThrows)

\* The timer's callback: controller.abort()
TimerFires(i) ==
    /\ req[i].timer = "armed"
    /\ now >= req[i].due
    /\ req' = [req EXCEPT ![i].timer = "fired", ![i].aborted = TRUE]
    /\ UNCHANGED <<storage, now, ticks, calls, gq, nonClientVars>>

\* The aborted fetch, or the aborted body read, rejects
AbortRejects(i) ==
    /\ Pending(req[i]) /\ req[i].aborted
    /\ SettleRequest(i, Finally([req[i] EXCEPT !.st = "rejected"]), FALSE)

NextClient ==
    \/ Tick
    \/ GetQuotes
    \/ \E i \in 1..2 : ResponseOk(i)
    \/ \E i \in 1..2 : ResponseNotOk(i)
    \/ \E i \in 1..2 : RequestFails(i)
    \/ \E i \in 1..2 : BodyRead(i)
    \/ \E i \in 1..2 : TimerFires(i)
    \/ \E i \in 1..2 : AbortRejects(i)

SpecClient == InitClient /\ [][NextClient]_vars

(***************************************************************************)
(* Claims about the quote client, checked under SpecClient.                *)
(***************************************************************************)
\* A getQuotes call was made
Called == gq.st # "idle"
\* The item is a text that JSON.parse accepts
Parseable(store) == store # NoItem /\ store.json
\* now minus the entry's timestamp, in milliseconds
AgeAt(store, time) == time - store.value.timestamp

\* C13: getQuotes with useCache = true returns the cached list without any
\* HTTP request if and only if localStorage holds a parseable entry whose
\* age is strictly less than one hour; an entry of one hour or more is
\* removed on that read and never returned, and the two requests are issued.
C13_CacheHitIffFresh ==
    (Called /\ gq.useCache) =>
        /\ gq.http = 0 <=> (Parseable(gq.before) /\ AgeAt(gq.before, gq.at) < 3600000)
        /\ gq.http = 0 =>
                /\ gq.st = "resolved"
                /\ gq.value = gq.before.value.data.items
                /\ gq.afterRead = gq.before
        /\ gq.http # 0 => gq.http = 2
        /\ (Parseable(gq.before) /\ AgeAt(gq.before, gq.at) >= 3600000) =>
                /\ gq.afterRead = NoItem
                /\ gq.http = 2
                /\ gq.st = "resolved" =>
                        /\ \A i \in 1..2 : req[i].st = "fulfilled"
                        /\ gq.value = req[1].data \o req[2].data

\* C13 witness: an entry of exactly one hour was read with useCache = true;
\* it is gone from localStorage and the two requests are under way
C13_Witness ==
    /\ gq.st = "pending"
    /\ gq.useCache
    /\ gq.before = JSONStringify(CacheItem(0, <<"q0">>))
    /\ gq.at = 3600000
    /\ storage = NoItem
    /\ gq.http = 2
    /\ \A i \in 1..2 : req[i].st = "fetching"

\* C14: if either of the two requests fails, getQuotes rejects and nothing
\* is written to the cache; the cache is written only after both requests
\* have succeeded, with the two responses concatenated in request order and
\* the time of writing as timestamp, and only when useCache is true.
C14_CacheWrittenOnlyAfterBoth ==
    (Called /\ gq.http = 2) =>
        /\ (\E i \in 1..2 : req[i].st = "rejected") => gq.st = "rejected"
        /\ gq.st \in {"pending", "rejected"} => storage = gq.afterRead
        /\ gq.st = "resolved" =>
                /\ \A i \in 1..2 : req[i].st = "fulfilled"
                /\ gq.value = req[1].data \o req[2].data
                /\ storage \in {gq.afterRead,
                                JSONStringify([timestamp |-> gq.doneAt,
                                               data |-> ArrV(req[1].data \o req[2].data)])}
                /\ ~gq.useCache => storage = gq.before

\* C14 witness: with useCache = true the first request has delivered its list
\* and the second was aborted by the timer: getQuotes has rejected and the
\* cache is as the read left it
C14_Witness ==
    /\ gq.st = "rejected"
    /\ gq.useCache
    /\ gq.http = 2
    /\ req[1].st = "fulfilled"
    /\ req[1].data = <<"q1">>
    /\ req[2].st = "rejected"
    /\ req[2].aborted
    /\ storage = NOT_JSON

MaxClicks == 3

LONG_QUOTE_THRESHOLD == 120

\* A text of n characters
TextOfLength(n) == [k \in 1..n |-> "x"]
\* An element of the list: { q, a, ... }
QuoteV(q, a) == [t |-> "object", q |-> q, a |-> a]
\* A quote of exactly LONG_QUOTE_THRESHOLD characters
AT_THRESHOLD == QuoteV(StrV(TextOfLength(LONG_QUOTE_THRESHOLD)), StrV(<<"A">>))
\* A quote of one character more, whose author is the empty string
OVER_THRESHOLD == QuoteV(StrV(TextOfLength(LONG_QUOTE_THRESHOLD + 1)), StrV(<<>>))
\* An object without q and a
NO_QUOTE == QuoteV(UndefinedV, UndefinedV)

QuoteLists ==
    {<<>>, <<AT_THRESHOLD>>, <<OVER_THRESHOLD>>, <<AT_THRESHOLD, OVER_THRESHOLD>>,
     <<AT_THRESHOLD, NO_QUOTE>>, <<OVER_THRESHOLD, NO_QUOTE>>, <<NO_QUOTE>>}

UNKNOWN == <<"U", "n", "k", "n", "o", "w", "n">>

\* Math.floor(Math.random() * this.quotes.length)
RandomIndices == IF Len(quotes) = 0 THEN {0} ELSE 0..(Len(quotes) - 1)
\* this.quotes[randomIndex]: undefined beyond the end of the list
QuoteAt(k) == IF k + 1 <= Len(quotes) THEN quotes[k + 1] ELSE UndefinedV
\* quote.q.length throws a TypeError when quote or quote.q is undefined
DisplayThrows(quote) == quote.t = "undefined" \/ quote.q.t = "undefined"
\* The writes of the timer callback of displayNewQuote, hideLoading included
DisplayWrites(quote) ==
    [dom EXCEPT !.long = Len(quote.q.s) > LONG_QUOTE_THRESHOLD,
                !.quote = quote.q.s,
                !.author = IF Truthy(quote.a) THEN quote.a.s ELSE UNKNOWN,
                !.loadingHidden = TRUE]

\* new App(): the constructor has called initialize, which awaits getQuotes
InitApp ==
    /\ PluginIdle
    /\ OpacityIdle
    /\ MatchIdle
    /\ PassIdle
    /\ ClientIdle
    /\ DebounceIdle
    /\ quotes = <<>>
    /\ app = [pc |-> "fetching", initTimer |-> FALSE, clickTimers |-> 0, clicks |-> 0,
              uncaught |-> 0]
    /\ dom = [quote |-> <<>>, author |-> <<>>, long |-> FALSE, loadingHidden |-> FALSE,
              disabled |-> FALSE]
    /\ tweet = <<>>

\* this.quotes = await this.quoteClient.getQuotes(), then displayNewQuote()
\* sets its timer
GetQuotesResolves ==
    /\ app.pc = "fetching"
    /\ quotes' \in QuoteLists
    /\ app' = [app EXCEPT !.pc = "displaying", !.initTimer = TRUE]
    /\ UNCHANGED <<dom, tweet, nonAppVars>>

\* getQuotes rejects: initialize rejects, the constructor's catch logs it
GetQuotesRejects ==
    /\ app.pc = "fetching"
    /\ app' = [app EXCEPT !.pc = "failed"]
    /\ UNCHANGED <<quotes, dom, tweet, nonAppVars>>

\* The timer callback of initialize's displayNewQuote: it throws, and the
\* promise stays pending; or it displays, resolves, and initialize goes on
\* to bindEvents()
InitDisplay ==
    /\ app.initTimer
    /\ \E k \in RandomIndices :
        IF DisplayThrows(QuoteAt(k))
        THEN /\ app' = [app EXCEPT !.initTimer = FALSE, !.uncaught = @ + 1]
             /\ dom' = dom
        ELSE /\ app' = [app EXCEPT !.initTimer = FALSE, !.pc = "bound"]
             /\ dom' = DisplayWrites(QuoteAt(k))
    /\ UNCHANGED <<quotes, tweet, nonAppVars>>

\* A click on the new-quote button: handleNewQuoteClick up to its await
Click ==
    /\ app.pc = "bound"
    /\ ~dom.disabled
    /\ app.clicks < MaxClicks
    /\ dom' = [dom EXCEPT !.disabled = TRUE]
    /\ app' = [app EXCEPT !.clickTimers = @ + 1, !.clicks = @ + 1]
    /\ UNCHANGED <<quotes, tweet, nonAppVars>>

\* The timer callback of a click's displayNewQuote: it throws, and the
\* promise stays pending; or it displays, resolves, and the handler's
\* finally runs hideButtonLoading()
ClickDisplay ==
    /\ app.clickTimers > 0
    /\ \E k \in RandomIndices :
        IF DisplayThrows(QuoteAt(k))
        THEN /\ app' = [app EXCEPT !.clickTimers = @ - 1, !.uncaught = @ + 1]
             /\ dom' = dom
        ELSE /\ app' = [app EXCEPT !.clickTimers = @ - 1]
             /\ dom' = [DisplayWrites(QuoteAt(k)) EXCEPT !.disabled = FALSE]
    /\ UNCHANGED <<quotes, tweet, nonAppVars>>

\* A click on the twitter button: window.open with the two texts
TwitterClick ==
    /\ app.pc = "bound"
    /\ tweet' = <<dom.quote, dom.author>>
    /\ UNCHANGED <<quotes, app, dom, nonAppVars>>

NextApp ==
    \/ GetQuotesResolves
    \/ GetQuotesRejects
    \/ InitDisplay
    \/ Click
    \/ ClickDisplay
    \/ TwitterClick

SpecApp == InitApp /\ [][NextApp]_vars

(***************************************************************************)
(* Claims about the app, checked under SpecApp.                            *)
(***************************************************************************)
\* C16: the new-quote button is disabled from the click until the new quote
\* has been displayed and is always enabled again afterwards, also when
\* displaying fails; at most one displayNewQuote started by a click is in
\* progress at any time.
C16_ButtonReenabled ==
    /\ app.clickTimers <= 1
    /\ app.clickTimers = 1 => dom.disabled
    /\ (app.pc = "bound" /\ app.clickTimers = 0) => ~dom.disabled

\* C17: once getQuotes has resolved and the timer of the first
\* displayNewQuote has run, whatever the list, a quote is displayed, the
\* loading indicator is hidden and the click handlers are bound; the
\* handlers are bound only after the first quote has been displayed.
C17_InitializeCompletes ==
    /\ (app.pc \in {"displaying", "bound"} /\ ~app.initTimer) =>
            /\ dom.quote # <<>>
            /\ dom.loadingHidden
            /\ app.pc = "bound"
    /\ app.pc = "bound" => dom.quote # <<>>
    /\ app.clicks > 0 => dom.quote # <<>>

(***************************************************************************)
(* debounce(callback, wait, immediate): the function it returns, its       *)
(* closure variable timeoutId, and the timers it sets.  timeoutId 0 stands *)
(* for null and undefined; the ids setTimeout returns are positive.  The   *)
(* timers run on time: a timer that is due runs before the clock advances  *)
(* and before any later call of the debounced function.                    *)
(***************************************************************************)
\* At most this many calls of the debounced function.
MaxInvocations == 3
\* The clock stops here.
MaxClock == 5

Waits == {1, 2}
Arguments == {"a", "b"}

\* A debounced function that does not clear the timer it replaces
clearTimer_absent(set, id) == set

\* clearTimeout(timeoutId)
clearTimer(set, id) == {t \in set : t.id # id}

TimerDue == \E t \in timers : t.due <= clock

\* const debounced = debounce(callback, wait, immediate)
InitDebounce ==
    /\ PluginIdle
    /\ OpacityIdle
    /\ MatchIdle
    /\ PassIdle
    /\ ClientIdle
    /\ AppIdle
    /\ \E wait \in Waits, immediate \in BOOLEAN :
        db = [wait |-> wait, immediate |-> immediate, timeoutId |-> 0, nextId |-> 1]
    /\ timers = {}
    /\ clock = 0
    /\ invocations = <<>>
    /\ execs = <<>>

\* debounced(...args)
Invoke ==
    /\ Len(invocations) < MaxInvocations
    /\ ~TimerDue
    /\ \E args \in Arguments :
        LET shouldCallNow == db.immediate /\ db.timeoutId = 0
            kept == IF db.timeoutId # 0 THEN clearTimer(timers, db.timeoutId) ELSE timers
        IN  /\ timers' = kept \cup {[id |-> db.nextId, due |-> clock + db.wait, args |-> args]}
            /\ db' = [db EXCEPT !.timeoutId = db.nextId, !.nextId = @ + 1]
            /\ execs' = IF shouldCallNow THEN Append(execs, [at |-> clock, args |-> args])
                        ELSE execs
            /\ invocations' = Append(invocations, [at |-> clock, args |-> args])
    /\ UNCHANGED <<clock, nonDebounceVars>>

\* The timer's callback: timeoutId = null; if (!immediate) callback(...args)
TimerCallback ==
    /\ \E t \in timers :
        /\ t.due <= clock
        /\ timers' = timers \ {t}
        /\ db' = [db EXCEPT !.timeoutId = 0]
        /\ execs' = IF ~db.immediate THEN Append(execs, [at |-> clock, args |-> t.args])
                    ELSE execs
    /\ UNCHANGED <<clock, invocations, nonDebounceVars>>

\* A millisecond passes
Advance ==
    /\ clock < MaxClock
    /\ ~TimerDue
    /\ clock' = clock + 1
    /\ UNCHANGED <<db, timers, invocations, execs, nonDebounceVars>>

NextDebounce ==
    \/ Invoke
    \/ TimerCallback
    \/ Advance

SpecDebounce == InitDebounce /\ [][NextDebounce]_vars

(***************************************************************************)
(* Claims about debounce, checked under SpecDebounce.                      *)
(***************************************************************************)
\* Call i is the last of its burst: the next call, if any, came wait
\* milliseconds or more after it
BurstLast(i) ==
    i = Len(invocations) \/ invocations[i + 1].at - invocations[i].at >= db.wait
\* The burst-last calls whose wait is over and whose timer is not waiting to run
BurstsOver ==
    {i \in 1..Len(invocations) :
        /\ BurstLast(i)
        /\ invocations[i].at + db.wait <= clock
        /\ ~(i = Len(invocations) /\ timers # {})}
\* The i-th smallest element of a set of numbers
Nth(set, i) == CHOOSE m \in set : Cardinality({n \in set : n < m}) = i - 1

\* C18: with immediate = false, every burst of calls (calls less than wait
\* milliseconds apart) gives exactly one execution of callback, wait
\* milliseconds after the burst's last call and with that call's arguments;
\* callback is never executed while a newer call's timer is pending: at most
\* one timer is set, and it is the last call's.
C18_OneExecutionPerBurst ==
    ~db.immediate =>
        /\ execs = [k \in 1..Cardinality(BurstsOver) |->
                        [at |-> invocations[Nth(BurstsOver, k)].at + db.wait,
                         args |-> invocations[Nth(BurstsOver, k)].args]]
        /\ Cardinality(timers) <= 1
        /\ \A t \in timers :
                /\ t.id = db.timeoutId
                /\ t.args = invocations[Len(invocations)].args
                /\ t.due = invocations[Len(invocations)].at + db.wait

\* C18 witness: with wait = 2, calls at 0 (a), 1 (b) and 3 (a) have given two
\* executions: b at 3 and a at 5
C18_Witness ==
    /\ ~db.immediate
    /\ db.wait = 2
    /\ invocations = <<[at |-> 0, args |-> "a"], [at |-> 1, args |-> "b"],
                       [at |-> 3, args |-> "a"]>>
    /\ execs = <<[at |-> 3, args |-> "b"], [at |-> 5, args |-> "a"]>>

====
